---- MODULE Spec2Model ----
(***************************************************************************)
(* A model of the LS-8 style emulator of src/cpu.py: the CPU object's      *)
(* fields (reg, ram, pc, flag), the process outcome of run() (status,      *)
(* exit code, exception, standard output) and one action per branch of     *)
(* the fetch-decode-execute loop.  Python's list indexing is kept as it    *)
(* is: an index i of a list of n cells is accepted for -n <= i < n and     *)
(* denotes cell i mod n, anything else raises IndexError; a lookup of an   *)
(* absent dictionary key raises KeyError.  An unhandled exception ends     *)
(* the process with the effects made so far.                               *)
(***************************************************************************)
EXTENDS Integers, Sequences, FiniteSets, TLC

(* ------------------------------ op codes ------------------------------ *)
LDI == 130
PRN == 71
HLT == 1
MUL == 162
PUSH == 69
POP == 70
RET == 17
CALL == 80
JEQ == 85
CMP == 167
JMP == 84
JNE == 86

SP == 7

NumRegs == 8
RamSize == 256

Opcodes == {LDI, PRN, HLT, MUL, PUSH, POP, RET, CALL, JEQ, CMP, JMP, JNE}

(* ------------------------------- bounds ------------------------------- *)
\* Register values are unbounded Python integers; steps that would leave
\* -MaxVal..MaxVal are not taken.
MaxVal == 300
\* Lines written to standard output before a run is cut off.
MaxOut == 4
\* Instructions of a freely composed program image.
MaxInstr == 2

(* --------------------------- list indexing ---------------------------- *)
RamValid(mar) == mar \in (0 - RamSize)..(RamSize - 1)
RamIdx(mar) == mar % RamSize
RegValid(i) == i \in (0 - NumRegs)..(NumRegs - 1)
RegIdx(i) == i % NumRegs

VARIABLES reg, ram, pc, flag, status, exitCode, exc, output, prog, last, lastCall

vars == <<reg, ram, pc, flag, status, exitCode, exc, output, prog, last, lastCall>>

(* ------------------------- memory operations -------------------------- *)
ram_read(mar) == ram[RamIdx(mar)]

\* ram_write(mdr, mar): the FIRST parameter is the value, the second the
\* address.
ram_write(mdr, mar) == [ram EXCEPT ![RamIdx(mar)] = mdr]

RegRead(r, i) == r[RegIdx(i)]
RegWrite(r, i, v) == [r EXCEPT ![RegIdx(i)] = v]

(* ------------------------------- images ------------------------------- *)
\* The byte sequences load() reads from a program file, instruction by
\* instruction.
I_LDI(r, v) == <<LDI, r, v>>
I_PRN(r) == <<PRN, r>>
I_MUL(a, b) == <<MUL, a, b>>
I_CMP(a, b) == <<CMP, a, b>>
I_PUSH(r) == <<PUSH, r>>
I_POP(r) == <<POP, r>>
I_CALL(r) == <<CALL, r>>
I_RET == <<RET>>
I_JMP(r) == <<JMP, r>>
I_JEQ(r) == <<JEQ, r>>
I_JNE(r) == <<JNE, r>>
I_HLT == <<HLT>>

\* Operands of the freely composed images.
GenRegs == {0, 1}
GenVals == {2, 6}

Alphabet ==
  {I_LDI(r, v) : r \in GenRegs, v \in GenVals}
  \cup {I_PRN(r) : r \in GenRegs}
  \cup {I_MUL(a, b) : a \in GenRegs, b \in GenRegs}
  \cup {I_CMP(a, b) : a \in GenRegs, b \in GenRegs}
  \cup {I_PUSH(r) : r \in GenRegs}
  \cup {I_POP(r) : r \in GenRegs}
  \cup {I_CALL(r) : r \in GenRegs}
  \cup {I_JMP(r) : r \in GenRegs}
  \cup {I_JEQ(r) : r \in GenRegs}
  \cup {I_JNE(r) : r \in GenRegs}
  \cup {I_RET, I_HLT}

RECURSIVE Programs(_)
Programs(n) ==
  IF n = 0 THEN {<<>>}
  ELSE LET P == Programs(n - 1)
       IN P \cup {p \o i : p \in P, i \in Alphabet}

GenericImages == Programs(MaxInstr)

\* LDI R0,8; LDI R1,9; MUL R0,R1; PRN R0; HLT
ScenarioA == I_LDI(0, 8) \o I_LDI(1, 9) \o I_MUL(0, 1) \o I_PRN(0) \o I_HLT

\* PRN v1; CALL sub; PRN v2; HLT; sub: RET      (sub is at address 16)
ScenarioB(v1, v2) ==
  I_LDI(0, v1) \o I_LDI(2, v2) \o I_LDI(1, 16)
  \o I_PRN(0) \o I_CALL(1) \o I_PRN(2) \o I_HLT \o I_RET

ScenarioBVals == {<<5, 6>>, <<6, 5>>, <<7, 7>>}
ScenarioBImages == {ScenarioB(v[1], v[2]) : v \in ScenarioBVals}

\* [LDI R7,s;] LDI Ra,v; PUSH Ra; POP Rb; HLT
PushPop(s, a, b, v) ==
  (IF s = 0 THEN <<>> ELSE I_LDI(SP, s))
  \o I_LDI(a, v) \o I_PUSH(a) \o I_POP(b) \o I_HLT

PushPopImages ==
  {PushPop(s, a, b, v) : s \in {0, 244}, a \in {0, 1, 2}, b \in {0, 1, 2},
                         v \in {0, 5, 255}}

\* [LDI R7,s;] LDI R0,sub; CALL R0; HLT; sub: RET
CallRet(s) ==
  IF s = 0 THEN I_LDI(0, 6) \o I_CALL(0) \o I_HLT \o I_RET
  ELSE I_LDI(SP, s) \o I_LDI(0, 9) \o I_CALL(0) \o I_HLT \o I_RET

CallRetImages == {CallRet(s) : s \in {0, 244}}

\* LDI R0,x; LDI R1,y; LDI R2,15; CMP R0,R1; J?? R2; HLT; (15:) PRN R0; HLT
CmpBranch(x, y, j) ==
  I_LDI(0, x) \o I_LDI(1, y) \o I_LDI(2, 15) \o I_CMP(0, 1)
  \o <<j, 2>> \o I_HLT \o I_PRN(0) \o I_HLT

CmpBranchImages ==
  {CmpBranch(x, y, j) : x \in {1, 2, 3}, y \in {1, 2, 3}, j \in {JEQ, JNE}}

\* Images that misuse the machine: a register operand outside the register
\* file, a jump outside memory, a byte that is no opcode between two PRNs.
FaultyImages ==
  { I_PRN(8),
    I_LDI(0, 16) \o I_MUL(0, 0) \o I_JMP(0),
    I_LDI(0, 5) \o I_PRN(0) \o <<255>> \o I_PRN(0) \o I_HLT,
    I_LDI(0, 5) \o I_MUL(0, 0) \o I_MUL(0, 0) \o I_PRN(0) \o I_HLT }

\* Images that name the stack pointer as the register operand.
SpOperandImages ==
  { I_LDI(SP, 10) \o I_CALL(SP),
    I_LDI(SP, 10) \o I_JMP(SP),
    I_LDI(SP, 10) \o I_PUSH(SP) \o I_POP(SP) \o I_HLT }

Images ==
  GenericImages \cup {ScenarioA} \cup ScenarioBImages \cup PushPopImages
  \cup CallRetImages \cup CmpBranchImages \cup FaultyImages
  \cup SpOperandImages

\* load(): the bytes of the file from address 0 on, the rest stays 0.
load(image) ==
  [address \in 0..(RamSize - 1) |->
     IF address < Len(image) THEN image[address + 1] ELSE 0]

(* -------------------------------- state ------------------------------- *)
\* flag is a dictionary: no key at all until the first CMP.
EmptyFlag == [k \in {} |-> 0]

NoOperand == 0 - 1000

NoStep == [op |-> "none", pc |-> 0, a |-> NoOperand, b |-> NoOperand,
           reg |-> [i \in 0..(NumRegs - 1) |-> 0], flag |-> EmptyFlag,
           mar |-> <<>>]

NoCall == [valid |-> FALSE, site |-> 0, sp |-> 0]

Init ==
  /\ reg = [i \in 0..(NumRegs - 1) |-> 0]
  /\ pc = 0
  /\ flag = EmptyFlag
  /\ prog \in Images
  /\ ram = load(prog)
  /\ status = "running"
  /\ exitCode = 0
  /\ exc = "none"
  /\ output = <<>>
  /\ last = NoStep
  /\ lastCall = NoCall

(* --------------------------------- ALU -------------------------------- *)
\* alu with the product stored in the second operand's register.
alu_into_b(op, reg_a, reg_b) ==
  RegWrite(reg, reg_b, RegRead(reg, reg_a) * RegRead(reg, reg_b))

\* alu with "MUL" taking the "ADD" branch.
alu_add(op, reg_a, reg_b) ==
  RegWrite(reg, reg_a, RegRead(reg, reg_a) + RegRead(reg, reg_b))

\* alu(op, reg_a, reg_b) for the register-writing operations; run() calls
\* it with "MUL" only.
alu(op, reg_a, reg_b) ==
  CASE op = "ADD" -> RegWrite(reg, reg_a, RegRead(reg, reg_a) + RegRead(reg, reg_b))
    [] op = "SUB" -> RegWrite(reg, reg_a, RegRead(reg, reg_a) - RegRead(reg, reg_b))
    [] op = "MUL" -> RegWrite(reg, reg_a, RegRead(reg, reg_a) * RegRead(reg, reg_b))

\* alu("CMP") with >= in place of > for the G flag.
alu_CMP_ge(reg_a, reg_b) ==
  [k \in DOMAIN flag \cup {"L", "G", "E"} |->
     CASE k = "L" -> IF RegRead(reg, reg_a) < RegRead(reg, reg_b) THEN 1 ELSE 0
       [] k = "G" -> IF RegRead(reg, reg_a) >= RegRead(reg, reg_b) THEN 1 ELSE 0
       [] k = "E" -> IF RegRead(reg, reg_a) = RegRead(reg, reg_b) THEN 1 ELSE 0
       [] OTHER -> flag[k]]

\* alu("CMP", reg_a, reg_b): the three keys of the flag dictionary.
alu_CMP(reg_a, reg_b) ==
  [k \in DOMAIN flag \cup {"L", "G", "E"} |->
     CASE k = "L" -> IF RegRead(reg, reg_a) < RegRead(reg, reg_b) THEN 1 ELSE 0
       [] k = "G" -> IF RegRead(reg, reg_a) > RegRead(reg, reg_b) THEN 1 ELSE 0
       [] k = "E" -> IF RegRead(reg, reg_a) = RegRead(reg, reg_b) THEN 1 ELSE 0
       [] OTHER -> flag[k]]

(* ------------------------------ the loop ------------------------------ *)
InRange(v) == v \in (0 - MaxVal)..MaxVal

\* op = self.ram_read(self.pc) succeeded and selected the branch of `opcode`.
Fetched(opcode) ==
  /\ status = "running"
  /\ RamValid(pc)
  /\ ram_read(pc) = opcode

\* The operand byte at pc + k, when it can be read.
Operand(k) == IF RamValid(pc + k) THEN ram_read(pc + k) ELSE NoOperand

\* The addresses in `addrs` up to and including the first one the list
\* index rejects: the access that raises is the last one made.
RECURSIVE UpToRaise(_)
UpToRaise(addrs) ==
  IF addrs = <<>> THEN <<>>
  ELSE IF ~RamValid(Head(addrs)) THEN <<Head(addrs)>>
  ELSE <<Head(addrs)>> \o UpToRaise(Tail(addrs))

\* The addresses the branch `name` passes to ram_read, ram_write and
\* self.ram[...] in the state it starts from, in the order of the code.
\* PUSH reaches its ram_write only when its operand names a register, and
\* then writes at the address held in that register (after SP -= 1).
Accesses(name) ==
  UpToRaise(
    CASE name \in {"LDI", "MUL", "CMP"} -> <<pc, pc + 1, pc + 2>>
      [] name \in {"PRN", "JMP", "JNE", "JEQ"} -> <<pc, pc + 1>>
      [] name = "POP" -> <<pc, reg[SP], pc + 1>>
      [] name = "PUSH" ->
           IF RamValid(pc) /\ RamValid(pc + 1) /\ RegValid(ram_read(pc + 1))
           THEN <<pc, pc + 1,
                  RegRead([reg EXCEPT ![SP] = reg[SP] - 1], ram_read(pc + 1))>>
           ELSE <<pc, pc + 1>>
      [] name = "CALL" -> <<pc, pc + 2, pc + 1>>
      [] name = "RET" -> <<pc, reg[SP]>>
      [] OTHER -> <<pc>>)

Did(name) ==
  last' = [op |-> name, pc |-> pc, a |-> Operand(1), b |-> Operand(2),
           reg |-> reg, flag |-> flag, mar |-> Accesses(name)]

\* An exception nobody catches: the interpreter prints a traceback to
\* standard error and the process ends with exit code 1.
Raise(e) ==
  /\ status' = "crash"
  /\ exc' = e
  /\ exitCode' = 1

Continue == UNCHANGED <<status, exc, exitCode>>

FetchError ==
  /\ status = "running"
  /\ ~RamValid(pc)
  /\ Raise("IndexError")
  /\ Did("fetch")
  /\ UNCHANGED <<reg, ram, pc, flag, output, prog, lastCall>>

ExecLDI ==
  /\ Fetched(LDI)
  /\ Did("LDI")
  /\ IF RamValid(pc + 1) /\ RamValid(pc + 2) /\ RegValid(ram_read(pc + 1))
     THEN /\ reg' = RegWrite(reg, ram_read(pc + 1), ram_read(pc + 2))
          /\ pc' = pc + 3
          /\ Continue
     ELSE /\ Raise("IndexError")
          /\ UNCHANGED <<reg, pc>>
  /\ UNCHANGED <<ram, flag, output, prog, lastCall>>

\* print(self.reg[index]): one line of standard output.
PrnLine(v) == [kind |-> "PRN", val |-> v]

\* The PRN branch clearing the flag dictionary after printing.
ExecPRN_reset ==
  /\ Fetched(PRN)
  /\ Len(output) < MaxOut
  /\ Did("PRN")
  /\ IF RamValid(pc + 1) /\ RegValid(ram_read(pc + 1))
     THEN /\ output' = Append(output, PrnLine(RegRead(reg, ram_read(pc + 1))))
          /\ pc' = pc + 2
          /\ flag' = EmptyFlag
          /\ Continue
     ELSE /\ Raise("IndexError")
          /\ UNCHANGED <<output, pc, flag>>
  /\ UNCHANGED <<reg, ram, prog, lastCall>>

\* The PRN branch printing the operand byte instead of the register.
ExecPRN_index ==
  /\ Fetched(PRN)
  /\ Len(output) < MaxOut
  /\ Did("PRN")
  /\ IF RamValid(pc + 1) /\ RegValid(ram_read(pc + 1))
     THEN /\ output' = Append(output, PrnLine(ram_read(pc + 1)))
          /\ pc' = pc + 2
          /\ Continue
     ELSE /\ Raise("IndexError")
          /\ UNCHANGED <<output, pc>>
  /\ UNCHANGED <<reg, ram, flag, prog, lastCall>>

ExecPRN ==
  /\ Fetched(PRN)
  /\ Len(output) < MaxOut
  /\ Did("PRN")
  /\ IF RamValid(pc + 1) /\ RegValid(ram_read(pc + 1))
     THEN /\ output' = Append(output, PrnLine(RegRead(reg, ram_read(pc + 1))))
          /\ pc' = pc + 2
          /\ Continue
     ELSE /\ Raise("IndexError")
          /\ UNCHANGED <<output, pc>>
  /\ UNCHANGED <<reg, ram, flag, prog, lastCall>>

ExecMUL ==
  /\ Fetched(MUL)
  /\ Did("MUL")
  /\ IF /\ RamValid(pc + 1) /\ RamValid(pc + 2)
        /\ RegValid(ram_read(pc + 1)) /\ RegValid(ram_read(pc + 2))
     THEN /\ InRange(RegRead(reg, ram_read(pc + 1)) * RegRead(reg, ram_read(pc + 2)))
          /\ reg' = alu("MUL", ram_read(pc + 1), ram_read(pc + 2))
          /\ pc' = pc + 3
          /\ Continue
     ELSE /\ Raise("IndexError")
          /\ UNCHANGED <<reg, pc>>
  /\ UNCHANGED <<ram, flag, output, prog, lastCall>>

ExecPOP ==
  /\ Fetched(POP)
  /\ Did("POP")
  /\ IF /\ RamValid(reg[SP])
        /\ RamValid(pc + 1)
        /\ RegValid(ram_read(pc + 1))
     THEN /\ LET stack_val == ram_read(reg[SP])
                 reg_num == ram_read(pc + 1)
                 popped == RegWrite(reg, reg_num, stack_val)
             IN reg' = [popped EXCEPT ![SP] = popped[SP] + 1]
          /\ pc' = pc + 2
          /\ Continue
     ELSE /\ Raise("IndexError")
          /\ UNCHANGED <<reg, pc>>
  /\ UNCHANGED <<ram, flag, output, prog, lastCall>>

\* The PUSH branch.  SP is decremented first, so it stays decremented when
\* a later line raises.
ExecPUSH ==
  /\ Fetched(PUSH)
  /\ InRange(reg[SP] - 1)
  /\ Did("PUSH")
  /\ LET dec == [reg EXCEPT ![SP] = reg[SP] - 1]
         stack_addr == dec[SP]
     IN /\ reg' = dec
        /\ IF /\ RamValid(pc + 1)
              /\ RegValid(ram_read(pc + 1))
              /\ RamValid(RegRead(dec, ram_read(pc + 1)))
           THEN /\ LET val == RegRead(dec, ram_read(pc + 1))
                   IN ram' = ram_write(stack_addr, val)
                /\ pc' = pc + 2
                /\ Continue
           ELSE /\ Raise("IndexError")
                /\ UNCHANGED <<ram, pc>>
  /\ lastCall' = NoCall
  /\ UNCHANGED <<flag, output, prog>>

\* The CALL branch.  SP is decremented and the memory write is made before
\* the register operand is read.
ExecCALL ==
  /\ Fetched(CALL)
  /\ InRange(reg[SP] - 1)
  /\ Did("CALL")
  /\ LET dec == [reg EXCEPT ![SP] = reg[SP] - 1]
         stack_addr == dec[SP]
         return_addr == pc + 2
     IN /\ reg' = dec
        /\ IF ~RamValid(return_addr)
           THEN /\ Raise("IndexError")
                /\ lastCall' = NoCall
                /\ UNCHANGED <<ram, pc>>
           ELSE /\ ram' = ram_write(stack_addr, return_addr)
                /\ IF RamValid(pc + 1) /\ RegValid(ram_read(pc + 1))
                   THEN /\ pc' = RegRead(dec, ram_read(pc + 1))
                        /\ lastCall' = [valid |-> TRUE, site |-> pc, sp |-> stack_addr]
                        /\ Continue
                   ELSE /\ Raise("IndexError")
                        /\ lastCall' = NoCall
                        /\ UNCHANGED pc
  /\ UNCHANGED <<flag, output, prog>>

ExecRET ==
  /\ Fetched(RET)
  /\ Did("RET")
  /\ IF RamValid(reg[SP])
     THEN /\ pc' = ram_read(reg[SP])
          /\ reg' = [reg EXCEPT ![SP] = reg[SP] + 1]
          /\ Continue
     ELSE /\ Raise("IndexError")
          /\ UNCHANGED <<reg, pc>>
  /\ lastCall' = NoCall
  /\ UNCHANGED <<ram, flag, output, prog>>

ExecCMP ==
  /\ Fetched(CMP)
  /\ Did("CMP")
  /\ IF /\ RamValid(pc + 1) /\ RamValid(pc + 2)
        /\ RegValid(ram_read(pc + 1)) /\ RegValid(ram_read(pc + 2))
     THEN /\ flag' = alu_CMP(ram_read(pc + 1), ram_read(pc + 2))
          /\ pc' = pc + 3
          /\ Continue
     ELSE /\ Raise("IndexError")
          /\ UNCHANGED <<flag, pc>>
  /\ UNCHANGED <<reg, ram, output, prog, lastCall>>

\* The JMP branch with the default advance applied after the jump.
ExecJMP_adv ==
  /\ Fetched(JMP)
  /\ Did("JMP")
  /\ IF RamValid(pc + 1) /\ RegValid(ram_read(pc + 1))
     THEN /\ pc' = RegRead(reg, ram_read(pc + 1)) + 2
          /\ Continue
     ELSE /\ Raise("IndexError")
          /\ UNCHANGED pc
  /\ UNCHANGED <<reg, ram, flag, output, prog, lastCall>>

ExecJMP ==
  /\ Fetched(JMP)
  /\ Did("JMP")
  /\ IF RamValid(pc + 1) /\ RegValid(ram_read(pc + 1))
     THEN /\ pc' = RegRead(reg, ram_read(pc + 1))
          /\ Continue
     ELSE /\ Raise("IndexError")
          /\ UNCHANGED pc
  /\ UNCHANGED <<reg, ram, flag, output, prog, lastCall>>

\* Branch with the fall-through advancing by 3 instead of 2.
Branch_adv3(taken_when) ==
  IF ~RamValid(pc + 1)
  THEN Raise("IndexError") /\ UNCHANGED pc
  ELSE IF "E" \notin DOMAIN flag
  THEN Raise("KeyError") /\ UNCHANGED pc
  ELSE IF flag["E"] = taken_when
  THEN IF RegValid(ram_read(pc + 1))
       THEN pc' = RegRead(reg, ram_read(pc + 1)) /\ Continue
       ELSE Raise("IndexError") /\ UNCHANGED pc
  ELSE pc' = pc + 3 /\ Continue

\* The JNE and JEQ branches differ in the value self.flag["E"] is compared
\* with: 0 for JNE, 1 for JEQ.
Branch(taken_when) ==
  IF ~RamValid(pc + 1)
  THEN Raise("IndexError") /\ UNCHANGED pc
  ELSE IF "E" \notin DOMAIN flag
  THEN Raise("KeyError") /\ UNCHANGED pc
  ELSE IF flag["E"] = taken_when
  THEN IF RegValid(ram_read(pc + 1))
       THEN pc' = RegRead(reg, ram_read(pc + 1)) /\ Continue
       ELSE Raise("IndexError") /\ UNCHANGED pc
  ELSE pc' = pc + 2 /\ Continue

ExecJNE ==
  /\ Fetched(JNE)
  /\ Did("JNE")
  /\ Branch(0)
  /\ UNCHANGED <<reg, ram, flag, output, prog, lastCall>>

ExecJEQ ==
  /\ Fetched(JEQ)
  /\ Did("JEQ")
  /\ Branch(1)
  /\ UNCHANGED <<reg, ram, flag, output, prog, lastCall>>

\* print("Exiting..."); sys.exit(0)
ExitLine == [kind |-> "Exiting...", val |-> 0]

ExecHLT ==
  /\ Fetched(HLT)
  /\ Did("HLT")
  /\ output' = Append(output, ExitLine)
  /\ status' = "halted"
  /\ exitCode' = 0
  /\ UNCHANGED <<reg, ram, pc, flag, exc, prog, lastCall>>

\* print("ERROR: Unknown command"); sys.exit(1)
ErrorLine == [kind |-> "ERROR: Unknown command", val |-> 0]

\* The else branch reporting the error and going on with the next byte.
ExecUnknown_skip ==
  /\ status = "running"
  /\ RamValid(pc)
  /\ ram_read(pc) \notin Opcodes
  /\ Len(output) < MaxOut
  /\ Did("unknown")
  /\ output' = Append(output, ErrorLine)
  /\ pc' = pc + 1
  /\ UNCHANGED <<reg, ram, flag, status, exitCode, exc, prog, lastCall>>

\* The else branch printing the program counter with its message.
ExecUnknown_report ==
  /\ status = "running"
  /\ RamValid(pc)
  /\ ram_read(pc) \notin Opcodes
  /\ Did("unknown")
  /\ output' = Append(output, [kind |-> "ERROR: Unknown command", val |-> pc])
  /\ status' = "fault"
  /\ exitCode' = 1
  /\ UNCHANGED <<reg, ram, pc, flag, exc, prog, lastCall>>

ExecUnknown ==
  /\ status = "running"
  /\ RamValid(pc)
  /\ ram_read(pc) \notin Opcodes
  /\ Did("unknown")
  /\ output' = Append(output, ErrorLine)
  /\ status' = "fault"
  /\ exitCode' = 1
  /\ UNCHANGED <<reg, ram, pc, flag, exc, prog, lastCall>>

Next ==
  \/ FetchError
  \/ ExecLDI
  \/ ExecPRN
  \/ ExecMUL
  \/ ExecPOP
  \/ ExecPUSH
  \/ ExecCALL
  \/ ExecRET
  \/ ExecCMP
  \/ ExecJMP
  \/ ExecJNE
  \/ ExecJEQ
  \/ ExecHLT
  \/ ExecUnknown

Spec == Init /\ [][Next]_vars

\* run() is a `while True` loop on one thread: a step that can be taken is
\* taken.
FairSpec == Spec /\ WF_vars(Next)

(* ------------------------------ properties ---------------------------- *)
IsPrefix(s, t) == Len(s) <= Len(t) /\ \A i \in 1..Len(s) : s[i] = t[i]

\* The values printed by PRN, in order.
PrnValues ==
  LET lines == SelectSeq(output, LAMBDA l : l.kind = "PRN")
  IN [i \in 1..Len(lines) |-> lines[i].val]

\* The general-purpose registers other than the stack pointer.
DataRegs == 0..(NumRegs - 2)

\* C1: PUSH Ra (reg[Ra] = V) immediately followed by POP Rb, for distinct
\* non-SP registers Ra and Rb, leaves reg[Rb] = V and the stack pointer at
\* its value before the PUSH.
C1_PushThenPop ==
  [][ ( /\ last.op = "PUSH"
        /\ Fetched(POP)
        /\ last.a \in DataRegs
        /\ Operand(1) \in DataRegs
        /\ last.a # Operand(1) )
      => ( /\ reg'[Operand(1)] = last.reg[last.a]
           /\ reg'[SP] = last.reg[SP] ) ]_vars

\* C2: a RET executed with the stack pointer at the value a CALL at address
\* c left it sets PC to c + 2 and restores the stack pointer to its value
\* before the CALL.
C2_CallThenRet ==
  [][ ( /\ Fetched(RET)
        /\ lastCall.valid
        /\ reg[SP] = lastCall.sp )
      => ( /\ pc' = lastCall.site + 2
           /\ reg'[SP] = lastCall.sp + 1 ) ]_vars

\* C3: once a CMP has executed exactly one of the flags L, G, E is set, and
\* right after a CMP on registers holding x and y: E iff x = y, L iff x < y,
\* G iff x > y.
C3_CmpFlags ==
  /\ (DOMAIN flag # {}) =>
       /\ DOMAIN flag = {"L", "G", "E"}
       /\ \A k \in DOMAIN flag : flag[k] \in {0, 1}
       /\ flag["L"] + flag["G"] + flag["E"] = 1
  /\ (last.op = "CMP" /\ status = "running") =>
       LET x == RegRead(last.reg, last.a)
           y == RegRead(last.reg, last.b)
       IN /\ (flag["E"] = 1) <=> (x = y)
          /\ (flag["L"] = 1) <=> (x < y)
          /\ (flag["G"] = 1) <=> (x > y)

C3_Witness ==
  /\ last.op = "CMP"
  /\ status = "running"
  /\ RegRead(last.reg, last.a) < RegRead(last.reg, last.b)
  /\ flag["L"] = 1

\* The conditional branch at pc is taken: JEQ with E set, JNE with E clear.
Taken ==
  \/ ram_read(pc) = JEQ /\ flag["E"] = 1
  \/ ram_read(pc) = JNE /\ flag["E"] = 0

\* C4: after a CMP has executed, JEQ sets PC to reg[operand1] exactly when
\* E is set and JNE exactly when E is clear, each advances PC by 2
\* otherwise, and neither changes registers, memory or flags.  (operand1 is
\* a register index whenever the branch is taken.)
C4_Branches ==
  [][ ( /\ Fetched(JEQ) \/ Fetched(JNE)
        /\ "E" \in DOMAIN flag
        /\ RamValid(pc + 1)
        /\ Taken => RegValid(Operand(1)) )
      => ( /\ pc' = IF Taken THEN RegRead(reg, Operand(1)) ELSE pc + 2
           /\ status' = "running"
           /\ UNCHANGED <<reg, ram, flag>> ) ]_vars

C4_Witness ==
  /\ last.op = "JEQ"
  /\ status = "running"
  /\ "E" \in DOMAIN last.flag
  /\ last.flag["E"] = 1
  /\ pc = RegRead(last.reg, last.a)
  /\ pc # last.pc + 2

\* A MUL with register operands is about to execute.
MulReady ==
  /\ Fetched(MUL)
  /\ RamValid(pc + 1) /\ RamValid(pc + 2)
  /\ RegValid(Operand(1)) /\ RegValid(Operand(2))

\* C5 as stated: after MUL a, b reg[a] is the product of the values reg[a]
\* and reg[b] had, reg[b] is unchanged, and so are every other register,
\* memory and the flags.
C5_MulAsStated ==
  [][ MulReady =>
      LET a == RegIdx(Operand(1))
          b == RegIdx(Operand(2))
      IN /\ reg'[a] = reg[a] * reg[b]
         /\ reg'[b] = reg[b]
         /\ \A i \in 0..(NumRegs - 1) : i \notin {a, b} => reg'[i] = reg[i]
         /\ UNCHANGED <<ram, flag>> ]_vars

\* C5 amended: as above, with reg[b] unchanged when b is another register
\* than a; MUL a, a leaves the square in the one register.
C5_Mul ==
  [][ MulReady =>
      LET a == RegIdx(Operand(1))
          b == RegIdx(Operand(2))
      IN /\ reg'[a] = reg[a] * reg[b]
         /\ (b # a) => reg'[b] = reg[b]
         /\ \A i \in 0..(NumRegs - 1) : i \notin {a, b} => reg'[i] = reg[i]
         /\ UNCHANGED <<ram, flag>> ]_vars

C5_Witness ==
  /\ last.op = "MUL"
  /\ status = "running"
  /\ last.a # last.b
  /\ RegRead(last.reg, last.b) > 1
  /\ RegRead(last.reg, last.a) > 1
  /\ RegRead(reg, last.a) = RegRead(last.reg, last.a) * RegRead(last.reg, last.b)
  /\ RegRead(reg, last.b) = RegRead(last.reg, last.b)

\* C6: the program LDI R0,8; LDI R1,9; MUL R0,R1; PRN R0; HLT run on a new
\* CPU prints exactly one PRN value, 72, and then halts with exit code 0.
C6_ScenarioA ==
  /\ [](prog = ScenarioA =>
          /\ status \in {"running", "halted"}
          /\ IsPrefix(PrnValues, <<72>>)
          /\ status = "halted" =>
               /\ output = <<PrnLine(72), ExitLine>>
               /\ exitCode = 0)
  /\ (prog = ScenarioA) ~> (status = "halted")

C6_Witness ==
  /\ prog = ScenarioA
  /\ status = "halted"
  /\ PrnValues = <<72>>
  /\ exitCode = 0

\* The two values a scenario B image loads for its PRNs.
ExpectedB == IF prog \in ScenarioBImages THEN <<prog[3], prog[6]>> ELSE <<>>

\* C7: a program that PRNs a value, CALLs a subroutine ending in RET, PRNs
\* a value and HLTs, run on a new CPU, prints both values in program order
\* and eventually halts with exit code 0.
C7_ScenarioB ==
  /\ [](prog \in ScenarioBImages => IsPrefix(PrnValues, ExpectedB))
  /\ (prog \in ScenarioBImages) ~>
       (status = "halted" /\ exitCode = 0 /\ PrnValues = ExpectedB)

\* C8: a fetched byte that is none of the twelve opcodes makes the engine
\* fault with a non-zero exit code, leaving registers, memory, flags and PC
\* as they were, and nothing is printed by PRN afterwards.
C8_UnknownOpcode ==
  [][ /\ ( /\ status = "running"
           /\ RamValid(pc)
           /\ ram_read(pc) \notin Opcodes )
         => ( /\ status' = "fault"
              /\ exitCode' # 0
              /\ PrnValues' = PrnValues
              /\ UNCHANGED <<reg, ram, flag, pc>> )
      /\ (last.op = "unknown") => (PrnValues' = PrnValues /\ status' = "fault")
    ]_vars

C8_Witness ==
  /\ status = "fault"
  /\ last.op = "unknown"
  /\ exitCode = 1
  /\ PrnValues # <<>>
  /\ ram_read(pc) = 255

C10_OnlyHaltOrFault ==
  /\ status \in {"running", "halted", "fault"}
  /\ (status = "halted") => (last.op = "HLT")
  /\ (status = "fault") => (last.op = "unknown")

\* C11: in a run started on a new CPU every address passed to a memory
\* read or write (the fetch at PC, the operand fetches, the stack accesses)
\* lies in 0..255.
C11_AddressesInRange ==
  \A i \in 1..Len(last.mar) : last.mar[i] \in 0..(RamSize - 1)

\* A PUSH or CALL whose operand names a register is about to execute with
\* a stack pointer whose decrement is still an index of memory.
StackStepReady(opcode) ==
  /\ Fetched(opcode)
  /\ RamValid(pc + 1) /\ RamValid(pc + 2)
  /\ Operand(1) \in 0..(NumRegs - 1)
  /\ RamValid(reg[SP] - 1)
  /\ InRange(reg[SP] - 1)

\* C12: a PUSH Ra step decrements the stack pointer by 1, stores the
\* pre-step value of reg[Ra] in the memory cell the new stack pointer
\* addresses, leaves every other cell unchanged and advances PC by 2.
C12_PushStep ==
  [][ StackStepReady(PUSH) =>
      LET cell == RamIdx(reg[SP] - 1)
      IN /\ reg'[SP] = reg[SP] - 1
         /\ ram'[cell] = reg[Operand(1)]
         /\ \A m \in 0..(RamSize - 1) : m # cell => ram'[m] = ram[m]
         /\ pc' = pc + 2 ]_vars

\* C13: a CALL Ra step at address c decrements the stack pointer by 1,
\* stores c + 2 in the memory cell the new stack pointer addresses, leaves
\* every other cell unchanged and sets PC to reg[Ra] with no further
\* advance.
C13_CallStep ==
  [][ StackStepReady(CALL) =>
      LET cell == RamIdx(reg[SP] - 1)
      IN /\ reg'[SP] = reg[SP] - 1
         /\ ram'[cell] = pc + 2
         /\ \A m \in 0..(RamSize - 1) : m # cell => ram'[m] = ram[m]
         /\ pc' = reg'[Operand(1)] ]_vars

\* C14: while no CMP has executed, a JEQ step falls through (PC += 2) and a
\* JNE step jumps (PC = reg[operand1]); the engine stays Running.
C14_BranchBeforeCmp ==
  [][ ( /\ Fetched(JEQ) \/ Fetched(JNE)
        /\ DOMAIN flag = {}
        /\ RamValid(pc + 1)
        /\ Operand(1) \in 0..(NumRegs - 1) )
      => ( /\ status' = "running"
           /\ pc' = IF ram_read(pc) = JEQ THEN pc + 2 ELSE reg[Operand(1)] )
    ]_vars

\* C15: every step changes PC by exactly one rule: LDI, MUL and CMP add 3;
\* PRN, PUSH, POP and an untaken JEQ/JNE add 2; CALL, JMP and a taken
\* JEQ/JNE set PC to reg[operand1] (as read by the branch: CALL reads it
\* after SP -= 1); RET sets PC to the value read from Memory[SP]; nothing
\* is added on top of a control transfer.  A step that ends the run leaves
\* PC where it was.
C15_PcRules ==
  /\ (status = "running" /\ last.op \in {"LDI", "MUL", "CMP"}) =>
       pc = last.pc + 3
  /\ (status = "running" /\ last.op \in {"PRN", "PUSH", "POP"}) =>
       pc = last.pc + 2
  /\ (status = "running" /\ last.op \in {"CALL", "JMP"}) =>
       pc = RegRead(reg, last.a)
  /\ (status = "running" /\ last.op \in {"JEQ", "JNE"}) =>
       pc = IF last.flag["E"] = (IF last.op = "JEQ" THEN 1 ELSE 0)
            THEN RegRead(last.reg, last.a)
            ELSE last.pc + 2
  /\ (status = "running" /\ last.op = "RET") =>
       /\ pc = ram_read(last.reg[SP])
       /\ reg = [last.reg EXCEPT ![SP] = last.reg[SP] + 1]
  /\ (status # "running") => pc = last.pc

C15_Witness ==
  /\ status = "running"
  /\ last.op = "CALL"
  /\ pc = RegRead(reg, last.a)
  /\ pc # last.pc + 2
  /\ pc # last.pc

\* C16: the flags change only in a CMP step; every LDI, PRN, MUL, PUSH,
\* POP, CALL, RET, JMP, JEQ and JNE step leaves them exactly as they were,
\* so a conditional branch sees the result of the most recent CMP.
C16_FlagsOnlyByCmp ==
  [][ /\ (flag' # flag) => Fetched(CMP)
      /\ ( /\ status = "running"
           /\ RamValid(pc)
           /\ ram_read(pc) \in Opcodes \ {CMP} ) => (flag' = flag) ]_vars

C16_Witness ==
  /\ last.op = "PRN"
  /\ status = "running"
  /\ DOMAIN flag = {"L", "G", "E"}
  /\ flag = last.flag

\* C17: a PRN step appends the value of reg[operand1] to the output and
\* changes nothing else but PC += 2; an HLT step prints the termination
\* notice and stops the engine with exit code 0, and no step follows it;
\* no other instruction of the table prints.
C17_Output ==
  [][ /\ ( /\ Fetched(PRN)
           /\ RamValid(pc + 1)
           /\ RegValid(Operand(1)) )
         => ( /\ output' = Append(output, PrnLine(RegRead(reg, Operand(1))))
              /\ pc' = pc + 2
              /\ UNCHANGED <<reg, ram, flag, status, exitCode, exc>> )
      /\ Fetched(HLT)
         => ( /\ output' = Append(output, ExitLine)
              /\ status' = "halted"
              /\ exitCode' = 0
              /\ UNCHANGED <<reg, ram, flag, pc>> )
      /\ status # "halted"
      /\ ( /\ status = "running"
           /\ RamValid(pc)
           /\ ram_read(pc) \in Opcodes \ {PRN, HLT} ) => (output' = output)
    ]_vars

C17_Witness ==
  /\ status = "halted"
  /\ last.op = "HLT"
  /\ exitCode = 0
  /\ Len(output) = 2
  /\ output[1] = PrnLine(72)
  /\ output[2] = ExitLine

\* The memory cells whose content differs between the two states of a step.
ChangedCells == {m \in 0..(RamSize - 1) : ram'[m] # ram[m]}

\* C18: memory is written only by PUSH and CALL, one cell per step; LDI,
\* PRN, MUL, CMP, POP, RET, JMP, JEQ, JNE and HLT leave all 256 cells
\* unchanged; and, the loaded image being bytes, every cell holds a value
\* in 0..255 in every reachable state.
C18_MemoryWrites ==
  [][ /\ (ChangedCells # {}) => (Fetched(PUSH) \/ Fetched(CALL))
      /\ Cardinality(ChangedCells) <= 1
      /\ \A m \in 0..(RamSize - 1) : ram'[m] \in 0..255 ]_vars

====
